---- MODULE Spec2Model ----
(***************************************************************************)
(* State machine of JobsList (src/ui/jobslist.rs): the job snapshot, the   *)
(* selection vector, the group map, the expansion set, the flattened       *)
(* visible rows and the table cursor, with one action per public method.   *)
(* Job indices are 0-based as in the source; TLA+ sequences are 1-based,   *)
(* so jobs[i + 1] is the job at index i.  A job is represented by its id,  *)
(* a sequence of one-character strings.  selected_jobs is a Vec<usize>     *)
(* whose element order no method but get_selected_jobs observes; it is     *)
(* represented as a bag (index -> number of occurrences), which keeps its  *)
(* length, its membership and any duplicate.                               *)
(* lastOp, ret, toggle_trail and cursor_before are history variables: the  *)
(* method called last, the value next()/previous() returned, the selection *)
(* before each of the last two consecutive toggle_select calls, and the    *)
(* cursor before the last call.                                            *)
(***************************************************************************)
EXTENDS Integers, Sequences, FiniteSets, Bags, TLC

VARIABLES jobs, selected_jobs, group_map, expanded_groups, visible_rows,
          state, lastOp, ret, toggle_trail, cursor_before

vars == <<jobs, selected_jobs, group_map, expanded_groups, visible_rows,
          state, lastOp, ret, toggle_trail, cursor_before>>

\* Largest number of jobs in one snapshot handed to update_jobs.
MaxJobs == 3

\* Job identifiers the fetch collaborator may deliver.
IdPool ==
    { <<"1">>, <<"2", "_", "1">>, <<"2", "_", "2">>, <<"2", "_", "3">> }

\* Option<usize> of TableState::selected().
None == <<>>

Some(i) == <<i>>

IsSome(o) == Len(o) = 1

Unwrap(o) == o[1]

\* Orders in which the fetch collaborator delivers the jobs of IdPool: by
\* job id ascending, by job id descending, and by another column.
SortOrders ==
    { << <<"1">>, <<"2", "_", "1">>, <<"2", "_", "2">>, <<"2", "_", "3">> >>,
      << <<"2", "_", "3">>, <<"2", "_", "2">>, <<"2", "_", "1">>, <<"1">> >>,
      << <<"2", "_", "1">>, <<"1">>, <<"2", "_", "3">>, <<"2", "_", "2">> >> }

\* The jobs of any subset of an order, in that order.
RECURSIVE Subsequences(_)
Subsequences(order) ==
    IF order = <<>> THEN { <<>> }
    ELSE LET rest == Subsequences(Tail(order))
         IN  rest \cup { <<Head(order)>> \o w : w \in rest }

\* Snapshots of at most MaxJobs jobs with pairwise distinct identifiers.
Snapshots ==
    { w \in UNION { Subsequences(order) : order \in SortOrders } :
        Len(w) <= MaxJobs }

(***************************************************************************)
(* Pure helpers of the source.                                             *)
(***************************************************************************)
is_ascii_digit(c) == c \in {"0", "1", "2", "3", "4", "5", "6", "7", "8", "9"}

\* Variant of find_sep that looks for the last '_' (str::rfind).
find_sep_last(id) ==
    IF \E p \in 1..Len(id) : id[p] = "_"
    THEN CHOOSE p \in 1..Len(id) :
            id[p] = "_" /\ \A q \in (p + 1)..Len(id) : id[q] # "_"
    ELSE 0

\* str::find('_'): 1-based position of the first '_', 0 when there is none.
find_sep(id) ==
    IF \E p \in 1..Len(id) : id[p] = "_"
    THEN CHOOSE p \in 1..Len(id) :
            id[p] = "_" /\ \A q \in 1..(p - 1) : id[q] # "_"
    ELSE 0

compute_group_key(id) ==
    LET pos == find_sep(id)
    IN  IF pos = 0 THEN id
        ELSE LET prefix == SubSeq(id, 1, pos - 1)
                 suffix == SubSeq(id, pos + 1, Len(id))
             IN  IF Len(suffix) > 0
                    /\ \A q \in 1..Len(suffix) : is_ascii_digit(suffix[q])
                 THEN prefix
                 ELSE id

\* Vec::contains on a bucket of the group map (a sequence of indices).
contains(v, x) == \E i \in 1..Len(v) : v[i] = x

\* Vec::contains, Vec::push and Vec::len on the selection vector.
sel_contains(sel, x) == BagIn(x, sel)

sel_push(sel, x) == sel (+) SetToBag({x})

sel_len(sel) == BagCardinality(sel)

\* Variant of build_group_map that files 1-based positions.
RECURSIVE build_group_map_one_based(_, _, _)
build_group_map_one_based(js, idx, gm) ==
    IF idx >= Len(js) THEN gm
    ELSE LET key == compute_group_key(js[idx + 1])
             bucket == IF key \in DOMAIN gm THEN gm[key] ELSE <<>>
             gm2 == [k \in (DOMAIN gm) \cup {key} |->
                        IF k = key THEN Append(bucket, idx + 1) ELSE gm[k]]
         IN  build_group_map_one_based(js, idx + 1, gm2)

\* First pass of rebuild_groups_and_rows: entry(key).or_default().push(idx)
RECURSIVE build_group_map(_, _, _)
build_group_map(js, idx, gm) ==
    IF idx >= Len(js) THEN gm
    ELSE LET key == compute_group_key(js[idx + 1])
             bucket == IF key \in DOMAIN gm THEN gm[key] ELSE <<>>
             gm2 == [k \in (DOMAIN gm) \cup {key} |->
                        IF k = key THEN Append(bucket, idx) ELSE gm[k]]
         IN  build_group_map(js, idx + 1, gm2)

GroupRow(key, idx) == [kind |-> "Group", key |-> key, rep_job_index |-> idx]

JobRow(idx) == [kind |-> "Job", job_index |-> idx]

\* Variant of push_members whose loop stops one member short.
RECURSIVE push_members_short(_, _, _, _)
push_members_short(members, m, rows, displayed) ==
    IF m >= Len(members) THEN [rows |-> rows, displayed |-> displayed]
    ELSE IF members[m] \in displayed
         THEN push_members_short(members, m + 1, rows, displayed)
         ELSE push_members_short(members, m + 1,
                                 Append(rows, JobRow(members[m])),
                                 displayed \cup {members[m]})

\* Variant of push_members that never records a member as displayed.
RECURSIVE push_members_unmarked(_, _, _, _)
push_members_unmarked(members, m, rows, displayed) ==
    IF m > Len(members) THEN [rows |-> rows, displayed |-> displayed]
    ELSE push_members_unmarked(members, m + 1,
                               Append(rows, JobRow(members[m])), displayed)

\* Inner loop of the second pass: append the not yet displayed members.
RECURSIVE push_members(_, _, _, _)
push_members(members, m, rows, displayed) ==
    IF m > Len(members) THEN [rows |-> rows, displayed |-> displayed]
    ELSE IF members[m] \in displayed
         THEN push_members(members, m + 1, rows, displayed)
         ELSE push_members(members, m + 1,
                           Append(rows, JobRow(members[m])),
                           displayed \cup {members[m]})

\* Variant of build_rows that does not remember the headers it has added.
RECURSIVE build_rows_reheader(_, _, _, _, _, _, _)
build_rows_reheader(js, gm, expanded, idx, rows, header_added, displayed) ==
    IF idx >= Len(js) THEN rows
    ELSE IF idx \in displayed
    THEN build_rows_reheader(js, gm, expanded, idx + 1, rows, header_added,
                             displayed)
    ELSE
      LET key == compute_group_key(js[idx + 1])
          members == IF key \in DOMAIN gm THEN gm[key] ELSE <<>>
      IN  IF Len(members) <= 1
          THEN build_rows_reheader(js, gm, expanded, idx + 1,
                                   Append(rows, JobRow(idx)),
                                   header_added, displayed \cup {idx})
          ELSE
            LET rows1 == Append(rows, GroupRow(key, idx))
                pm == IF key \in expanded
                      THEN push_members(members, 1, rows1, displayed)
                      ELSE [rows |-> rows1, displayed |-> displayed]
            IN  build_rows_reheader(js, gm, expanded, idx + 1,
                                    pm.rows, header_added, pm.displayed)

\* Variant of build_rows that treats only an empty bucket as "single job".
RECURSIVE build_rows_no_single(_, _, _, _, _, _, _)
build_rows_no_single(js, gm, expanded, idx, rows, header_added, displayed) ==
    IF idx >= Len(js) THEN rows
    ELSE IF idx \in displayed
    THEN build_rows_no_single(js, gm, expanded, idx + 1, rows, header_added,
                              displayed)
    ELSE
      LET key == compute_group_key(js[idx + 1])
          members == IF key \in DOMAIN gm THEN gm[key] ELSE <<>>
      IN  IF Len(members) < 1
          THEN build_rows_no_single(js, gm, expanded, idx + 1,
                                    Append(rows, JobRow(idx)),
                                    header_added, displayed \cup {idx})
          ELSE
            LET rows1 == IF key \in header_added THEN rows
                         ELSE Append(rows, GroupRow(key, idx))
                added1 == header_added \cup {key}
                pm == IF key \in expanded
                      THEN push_members(members, 1, rows1, displayed)
                      ELSE [rows |-> rows1, displayed |-> displayed]
            IN  build_rows_no_single(js, gm, expanded, idx + 1,
                                     pm.rows, added1, pm.displayed)

\* Second pass of rebuild_groups_and_rows.
RECURSIVE build_rows(_, _, _, _, _, _, _)
build_rows(js, gm, expanded, idx, rows, header_added, displayed) ==
    IF idx >= Len(js) THEN rows
    ELSE IF idx \in displayed
    THEN build_rows(js, gm, expanded, idx + 1, rows, header_added, displayed)
    ELSE
      LET key == compute_group_key(js[idx + 1])
          members == IF key \in DOMAIN gm THEN gm[key] ELSE <<>>
      IN  IF Len(members) <= 1
          THEN build_rows(js, gm, expanded, idx + 1,
                          Append(rows, JobRow(idx)),
                          header_added, displayed \cup {idx})
          ELSE
            LET rows1 == IF key \in header_added THEN rows
                         ELSE Append(rows, GroupRow(key, idx))
                added1 == header_added \cup {key}
                pm == IF key \in expanded
                      THEN push_members(members, 1, rows1, displayed)
                      ELSE [rows |-> rows1, displayed |-> displayed]
            IN  build_rows(js, gm, expanded, idx + 1,
                           pm.rows, added1, pm.displayed)

rebuild_group_map(js) == build_group_map(js, 0, << >>)

rebuild_visible_rows(js, gm, expanded) ==
    build_rows(js, gm, expanded, 0, <<>>, {}, {})

\* Vec::get on visible_rows with a 0-based index: the row or None.
row_at(rows, o) ==
    IF IsSome(o) /\ Unwrap(o) < Len(rows) THEN Some(rows[Unwrap(o) + 1])
    ELSE None

(***************************************************************************)
(* Queries.                                                                *)
(***************************************************************************)
all_selected == sel_len(selected_jobs) = Len(jobs)

\* Vec::get on jobs with a 0-based index: the job or None.
job_at(js, i) == IF i < Len(js) THEN Some(js[i + 1]) ELSE None

selected_job ==
    LET r == row_at(visible_rows, state)
    IN  IF ~IsSome(r) THEN None
        ELSE IF Unwrap(r).kind = "Group"
             THEN IF Unwrap(r).key \in DOMAIN group_map
                     /\ Len(group_map[Unwrap(r).key]) > 0
                  THEN job_at(jobs, group_map[Unwrap(r).key][1])
                  ELSE None
             ELSE job_at(jobs, Unwrap(r).job_index)

(***************************************************************************)
(* Initial state: JobsList::new().                                         *)
(***************************************************************************)
Init ==
    /\ jobs = <<>>
    /\ selected_jobs = EmptyBag
    /\ group_map = << >>
    /\ expanded_groups = {}
    /\ visible_rows = <<>>
    /\ state = None
    /\ lastOp = "new"
    /\ ret = FALSE
    /\ toggle_trail = <<>>
    /\ cursor_before = None

(***************************************************************************)
(* update_jobs                                                             *)
(***************************************************************************)
\* Variant that clamps an out-of-range cursor to the last row.
revalidate_cursor_clamp(o, rows, js) ==
    IF IsSome(o)
    THEN IF Unwrap(o) >= Len(rows)
         THEN Some(IF Len(rows) = 0 THEN 0 ELSE Len(rows) - 1)
         ELSE o
    ELSE IF Len(js) # 0 THEN Some(0) ELSE o

\* "Reset selection if out of bounds": the cursor after the rebuild.
revalidate_cursor(o, rows, js) ==
    IF IsSome(o)
    THEN IF Unwrap(o) >= Len(rows) THEN Some(0) ELSE o
    ELSE IF Len(js) # 0 THEN Some(0) ELSE o

\* Variant of update_jobs that also forgets which groups were expanded.
update_jobs_collapse(new_jobs) ==
    LET gm == rebuild_group_map(new_jobs)
        rows == rebuild_visible_rows(new_jobs, gm, {})
    IN  /\ jobs' = new_jobs
        /\ group_map' = gm
        /\ visible_rows' = rows
        /\ state' = revalidate_cursor(state, rows, new_jobs)
        /\ expanded_groups' = {}
        /\ UNCHANGED selected_jobs
        /\ lastOp' = "update_jobs"
        /\ cursor_before' = state
        /\ ret' = FALSE
        /\ toggle_trail' = <<>>

update_jobs(new_jobs) ==
    LET gm == rebuild_group_map(new_jobs)
        rows == rebuild_visible_rows(new_jobs, gm, expanded_groups)
    IN  /\ jobs' = new_jobs
        /\ group_map' = gm
        /\ visible_rows' = rows
        /\ state' = revalidate_cursor(state, rows, new_jobs)
        /\ UNCHANGED <<selected_jobs, expanded_groups>>
        /\ lastOp' = "update_jobs"
        /\ cursor_before' = state
        /\ ret' = FALSE
        /\ toggle_trail' = <<>>

(***************************************************************************)
(* toggle_select                                                           *)
(***************************************************************************)
\* selected_jobs.retain(|i| !indices.contains(i))
retain_not_in(sel, indices) ==
    [i \in { j \in DOMAIN sel : ~contains(indices, j) } |-> sel[i]]

\* Variant of push_missing that pushes every index of the bucket.
RECURSIVE push_every(_, _, _)
push_every(sel, indices, k) ==
    IF k > Len(indices) THEN sel
    ELSE push_every(sel_push(sel, indices[k]), indices, k + 1)

\* for idx in indices { if !selected_jobs.contains(idx) { push(idx) } }
RECURSIVE push_missing(_, _, _)
push_missing(sel, indices, k) ==
    IF k > Len(indices) THEN sel
    ELSE IF sel_contains(sel, indices[k])
         THEN push_missing(sel, indices, k + 1)
         ELSE push_missing(sel_push(sel, indices[k]), indices, k + 1)

\* Variant of the group arm whose deselect branch clears the whole vector.
toggle_group_selection_clear(sel, indices) ==
    IF \A k \in 1..Len(indices) : sel_contains(sel, indices[k])
    THEN EmptyBag
    ELSE push_missing(sel, indices, 1)

\* Variant of the group arm that deselects as soon as any member is selected.
toggle_group_selection_any(sel, indices) ==
    IF \E k \in 1..Len(indices) : sel_contains(sel, indices[k])
    THEN retain_not_in(sel, indices)
    ELSE push_missing(sel, indices, 1)

\* Group arm of toggle_select.
toggle_group_selection(sel, indices) ==
    IF \A k \in 1..Len(indices) : sel_contains(sel, indices[k])
    THEN retain_not_in(sel, indices)
    ELSE push_missing(sel, indices, 1)

\* Variant of the job arm whose deselect branch clears the whole vector.
toggle_job_selection_clear(sel, job_index) ==
    IF sel_contains(sel, job_index)
    THEN EmptyBag
    ELSE sel_push(sel, job_index)

\* Job arm of toggle_select.
toggle_job_selection(sel, job_index) ==
    IF sel_contains(sel, job_index)
    THEN retain_not_in(sel, <<job_index>>)
    ELSE sel_push(sel, job_index)

toggle_select_result(sel, rows, gm, o) ==
    LET r == row_at(rows, o)
    IN  IF ~IsSome(r) THEN sel
        ELSE IF Unwrap(r).kind = "Group"
             THEN IF Unwrap(r).key \in DOMAIN gm
                  THEN toggle_group_selection(sel, gm[Unwrap(r).key])
                  ELSE sel
             ELSE toggle_job_selection(sel, Unwrap(r).job_index)

toggle_select ==
    /\ selected_jobs' =
          toggle_select_result(selected_jobs, visible_rows, group_map, state)
    /\ UNCHANGED <<jobs, group_map, expanded_groups, visible_rows, state>>
    /\ lastOp' = "toggle_select"
    /\ cursor_before' = state
    /\ ret' = FALSE
    /\ toggle_trail' =
          IF Len(toggle_trail) = 0 THEN <<selected_jobs>>
          ELSE <<toggle_trail[Len(toggle_trail)], selected_jobs>>

(***************************************************************************)
(* select_all, clear_selection                                             *)
(***************************************************************************)
\* Variant with an inclusive range, (0..=n).collect().
index_range_inclusive(n) == SetToBag(0..n)

\* (0..n).collect()
index_range(n) == SetToBag(0..(n - 1))

select_all ==
    /\ selected_jobs' = index_range(Len(jobs))
    /\ UNCHANGED <<jobs, group_map, expanded_groups, visible_rows, state>>
    /\ lastOp' = "select_all"
    /\ cursor_before' = state
    /\ ret' = FALSE
    /\ toggle_trail' = <<>>

cleared == EmptyBag

clear_selection ==
    /\ selected_jobs' = cleared
    /\ UNCHANGED <<jobs, group_map, expanded_groups, visible_rows, state>>
    /\ lastOp' = "clear_selection"
    /\ cursor_before' = state
    /\ ret' = FALSE
    /\ toggle_trail' = <<>>

(***************************************************************************)
(* next, previous                                                          *)
(***************************************************************************)
\* usize::saturating_sub(1)
saturating_sub1(n) == IF n = 0 THEN 0 ELSE n - 1

\* Variant of next_index that wraps one row too late.
next_index_late(o, n) ==
    IF IsSome(o)
    THEN IF Unwrap(o) >= n THEN 0 ELSE Unwrap(o) + 1
    ELSE 0

next_index(o, n) ==
    IF IsSome(o)
    THEN IF Unwrap(o) >= saturating_sub1(n) THEN 0 ELSE Unwrap(o) + 1
    ELSE 0

previous_index(o, n) ==
    IF IsSome(o)
    THEN IF Unwrap(o) = 0 THEN saturating_sub1(n) ELSE Unwrap(o) - 1
    ELSE 0

next ==
    /\ IF Len(visible_rows) = 0
       THEN /\ state' = state
            /\ ret' = FALSE
       ELSE LET i == next_index(state, Len(visible_rows))
            IN  /\ state' = Some(i)
                /\ ret' = (state # Some(i))
    /\ UNCHANGED <<jobs, selected_jobs, group_map, expanded_groups,
                   visible_rows>>
    /\ lastOp' = "next"
    /\ cursor_before' = state
    /\ toggle_trail' = <<>>

previous ==
    /\ IF Len(visible_rows) = 0
       THEN /\ state' = state
            /\ ret' = FALSE
       ELSE LET i == previous_index(state, Len(visible_rows))
            IN  /\ state' = Some(i)
                /\ ret' = (state # Some(i))
    /\ UNCHANGED <<jobs, selected_jobs, group_map, expanded_groups,
                   visible_rows>>
    /\ lastOp' = "previous"
    /\ cursor_before' = state
    /\ toggle_trail' = <<>>

(***************************************************************************)
(* toggle_group_expand                                                     *)
(***************************************************************************)
\* The group key of the row under the cursor, or None.
target_key(rows, o, js) ==
    LET r == row_at(rows, o)
    IN  IF ~IsSome(r) THEN None
        ELSE IF Unwrap(r).kind = "Group" THEN Some(Unwrap(r).key)
             ELSE Some(compute_group_key(js[Unwrap(r).job_index + 1]))

flip_expanded(expanded, key) ==
    IF key \in expanded THEN expanded \ {key} ELSE expanded \cup {key}

is_header_of(row, key) == row.kind = "Group" /\ row.key = key

\* Variant of header_position that yields the 1-based position.
header_position_one_based(rows, key) ==
    IF \E p \in 1..Len(rows) : is_header_of(rows[p], key)
    THEN Some(CHOOSE p \in 1..Len(rows) :
                  /\ is_header_of(rows[p], key)
                  /\ \A q \in 1..(p - 1) : ~is_header_of(rows[q], key))
    ELSE None

\* iter().position(..): 0-based index of the first header of key, or None.
header_position(rows, key) ==
    IF \E p \in 1..Len(rows) : is_header_of(rows[p], key)
    THEN Some((CHOOSE p \in 1..Len(rows) :
                  /\ is_header_of(rows[p], key)
                  /\ \A q \in 1..(p - 1) : ~is_header_of(rows[q], key)) - 1)
    ELSE None

\* Variant that sends the cursor to row 0 when the key has no header.
cursor_after_expand_reset(o, rows, keep_key) ==
    IF IsSome(keep_key) /\ IsSome(header_position(rows, Unwrap(keep_key)))
    THEN header_position(rows, Unwrap(keep_key))
    ELSE Some(0)

\* Variant that leaves the cursor where it was.
cursor_after_expand_stay(o, rows, keep_key) == o

\* "keep selection on the group header"
cursor_after_expand(o, rows, keep_key) ==
    IF IsSome(keep_key) /\ IsSome(header_position(rows, Unwrap(keep_key)))
    THEN header_position(rows, Unwrap(keep_key))
    ELSE o

\* Variant of toggle_group_expand that rebuilds the rows before it flips
\* the key.
toggle_group_expand_stale ==
    /\ IF ~IsSome(state)
       THEN UNCHANGED <<group_map, expanded_groups, visible_rows, state>>
       ELSE LET tk == target_key(visible_rows, state, jobs)
                expanded == IF IsSome(tk)
                            THEN flip_expanded(expanded_groups, Unwrap(tk))
                            ELSE expanded_groups
                gm == rebuild_group_map(jobs)
                rows == rebuild_visible_rows(jobs, gm, expanded_groups)
            IN  /\ expanded_groups' = expanded
                /\ group_map' = gm
                /\ visible_rows' = rows
                /\ state' = cursor_after_expand(state, rows, tk)
    /\ UNCHANGED <<jobs, selected_jobs>>
    /\ lastOp' = "toggle_group_expand"
    /\ cursor_before' = state
    /\ ret' = FALSE
    /\ toggle_trail' = <<>>

toggle_group_expand ==
    /\ IF ~IsSome(state)
       THEN UNCHANGED <<group_map, expanded_groups, visible_rows, state>>
       ELSE LET tk == target_key(visible_rows, state, jobs)
                expanded == IF IsSome(tk)
                            THEN flip_expanded(expanded_groups, Unwrap(tk))
                            ELSE expanded_groups
                gm == rebuild_group_map(jobs)
                rows == rebuild_visible_rows(jobs, gm, expanded)
            IN  /\ expanded_groups' = expanded
                /\ group_map' = gm
                /\ visible_rows' = rows
                /\ state' = cursor_after_expand(state, rows, tk)
    /\ UNCHANGED <<jobs, selected_jobs>>
    /\ lastOp' = "toggle_group_expand"
    /\ cursor_before' = state
    /\ ret' = FALSE
    /\ toggle_trail' = <<>>

(***************************************************************************)
(* Specification.                                                          *)
(***************************************************************************)
Next ==
    \/ \E new_jobs \in Snapshots : update_jobs(new_jobs)
    \/ toggle_select
    \/ select_all
    \/ clear_selection
    \/ next
    \/ previous
    \/ toggle_group_expand

Spec == Init /\ [][Next]_vars

(***************************************************************************)
(* Specification for compute_group_key: one-job snapshots whose identifier *)
(* ranges over all strings of at most MaxIdLen characters and the          *)
(* identifiers of the documented examples; update_jobs files the job under *)
(* its group key.                                                          *)
(***************************************************************************)
MaxIdLen == 4

KeyAlphabet == { "7", "a", "_" }

RECURSIVE StringsUpTo(_)
StringsUpTo(n) ==
    IF n = 0 THEN { <<>> }
    ELSE LET shorter == StringsUpTo(n - 1)
         IN  shorter \cup { Append(w, c) : w \in shorter, c \in KeyAlphabet }

Id12345 == <<"1", "2", "3", "4", "5">>

KeyExamples ==
    { Id12345 \o <<"_", "7">>,
      Id12345,
      Id12345 \o <<"_", "a", "b", "c">>,
      Id12345 \o <<"_", "7", "_", "8">> }

KeyInputs == (StringsUpTo(MaxIdLen) \ { <<>> }) \cup KeyExamples

KeyNext == \E id \in KeyInputs : update_jobs(<<id>>)

KeySpec == Init /\ [][KeyNext]_vars

(***************************************************************************)
(* Specification for the row projection with two array groups: the view    *)
(* has just received, by update_jobs with the cursor on row 0, a snapshot  *)
(* of at most MaxGroupedJobs jobs while any set of group keys is expanded; *)
(* the user then moves the cursor and expands or collapses groups.         *)
(***************************************************************************)
MaxGroupedJobs == 4

GroupedIdPool ==
    { <<"1">>, <<"2", "_", "1">>, <<"2", "_", "2">>,
      <<"3", "_", "1">>, <<"3", "_", "2">> }

RECURSIVE DistinctSequences(_, _)
DistinctSequences(pool, n) ==
    IF n = 0 THEN { <<>> }
    ELSE LET shorter == DistinctSequences(pool, n - 1)
         IN  shorter \cup
             { Append(w, id) : w \in { v \in shorter : Len(v) = n - 1 },
                               id \in pool }

GroupedSnapshots ==
    { w \in DistinctSequences(GroupedIdPool, MaxGroupedJobs) :
        \A i, j \in 1..Len(w) : i # j => w[i] # w[j] }

GroupedKeys == { compute_group_key(id) : id \in GroupedIdPool }

RowsInit ==
    \E new_jobs \in GroupedSnapshots, expanded \in SUBSET GroupedKeys :
        LET gm == rebuild_group_map(new_jobs)
            rows == rebuild_visible_rows(new_jobs, gm, expanded)
        IN  /\ jobs = new_jobs
            /\ selected_jobs = EmptyBag
            /\ group_map = gm
            /\ expanded_groups = expanded
            /\ visible_rows = rows
            /\ state = revalidate_cursor(Some(0), rows, new_jobs)
            /\ lastOp = "update_jobs"
            /\ ret = FALSE
            /\ toggle_trail = <<>>
            /\ cursor_before = Some(0)

RowsNext ==
    \/ toggle_group_expand
    \/ next
    \/ previous

RowsSpec == RowsInit /\ [][RowsNext]_vars

(***************************************************************************)
(* Vocabulary of the properties.                                           *)
(***************************************************************************)
JobIndices == 0..(Len(jobs) - 1)

SelectedSet(sel) == BagToSet(sel)

\* Positions (1-based) of the JobRows of job index i.
JobRowPositions(i) ==
    { p \in 1..Len(visible_rows) :
        visible_rows[p].kind = "Job" /\ visible_rows[p].job_index = i }

CursorOnHeader ==
    IsSome(row_at(visible_rows, state))
    /\ Unwrap(row_at(visible_rows, state)).kind = "Group"

\* Bucket of the header under the cursor, as a set of job indices.
CursorBucket ==
    LET key == Unwrap(row_at(visible_rows, state)).key
    IN  IF key \in DOMAIN group_map
        THEN { group_map[key][k] : k \in 1..Len(group_map[key]) }
        ELSE {}

MultiMemberKeys == { k \in DOMAIN group_map : Len(group_map[k]) >= 2 }

(***************************************************************************)
(* C1: every index held in selected_jobs is a valid index into the current *)
(* job snapshot (index < number of jobs).                                  *)
(***************************************************************************)
C1_SelectionIndicesValid ==
    \A i \in SelectedSet(selected_jobs) : i < Len(jobs)

(***************************************************************************)
(* C2: whenever visible_rows is non-empty the cursor is set and is a valid *)
(* row index.                                                              *)
(***************************************************************************)
C2_CursorValidOnRows ==
    Len(visible_rows) > 0 =>
        IsSome(state) /\ 0 <= Unwrap(state) /\ Unwrap(state) < Len(visible_rows)

\* toggle_group_expand has just collapsed a group, shrinking the row list
\* to a standalone job and the header, with the cursor on the header.
C2_Witness ==
    /\ lastOp = "toggle_group_expand"
    /\ CursorOnHeader
    /\ Unwrap(row_at(visible_rows, state)).key \notin expanded_groups
    /\ Unwrap(state) > 0
    /\ Len(visible_rows) = 2

(***************************************************************************)
(* C3: a set cursor refers to an existing visible row (cursor set implies  *)
(* cursor < row count), also after update_jobs with an empty snapshot.     *)
(***************************************************************************)
C3_SetCursorRefersToRow ==
    IsSome(state) => Unwrap(state) < Len(visible_rows)

(***************************************************************************)
(* C4: when every multi-member group key is expanded, visible_rows holds   *)
(* exactly one JobRow for every job index of the snapshot.                 *)
(***************************************************************************)
C4_FullyExpandedPartition ==
    MultiMemberKeys \subseteq expanded_groups =>
        \A i \in JobIndices : Cardinality(JobRowPositions(i)) = 1

C4_Witness ==
    /\ MultiMemberKeys # {}
    /\ MultiMemberKeys \subseteq expanded_groups
    /\ Len(jobs) = MaxJobs
    /\ \E k \in DOMAIN group_map : Len(group_map[k]) = 1

(***************************************************************************)
(* C5: every job index is the job_index of some JobRow or a member of the  *)
(* bucket of some header present in visible_rows, and no job index occurs  *)
(* in more than one JobRow.                                                *)
(***************************************************************************)
C5_EveryJobReachable ==
    \A i \in JobIndices :
        /\ \/ JobRowPositions(i) # {}
           \/ \E p \in 1..Len(visible_rows) :
                /\ visible_rows[p].kind = "Group"
                /\ visible_rows[p].key \in DOMAIN group_map
                /\ contains(group_map[visible_rows[p].key], i)
        /\ Cardinality(JobRowPositions(i)) <= 1

\* An expanded group interleaved with a standalone job.
C5_Witness ==
    /\ Len(jobs) = MaxJobs
    /\ \E k \in MultiMemberKeys \cap expanded_groups :
         \E i \in JobIndices :
            /\ ~contains(group_map[k], i)
            /\ group_map[k][1] < i
            /\ i < group_map[k][Len(group_map[k])]

(***************************************************************************)
(* C6 as stated: with the cursor on a group header and for any prior       *)
(* selection, two toggle_select calls in a row return the selection (as a  *)
(* set of job indices) to its state before the first call.                 *)
(***************************************************************************)
C6_ToggleTwiceRestores ==
    (Len(toggle_trail) = 2 /\ CursorOnHeader) =>
        SelectedSet(selected_jobs) = SelectedSet(toggle_trail[1])

(***************************************************************************)
(* C6 amended: two toggle_select calls in a row on a group header restore  *)
(* the selection when no member or every member of the group was selected  *)
(* before; when only some members were selected they leave no member of    *)
(* the group selected and the rest of the selection as it was.             *)
(***************************************************************************)
C6_ToggleTwiceRestoresNoneOrAll ==
    (Len(toggle_trail) = 2 /\ CursorOnHeader) =>
        LET before == SelectedSet(toggle_trail[1])
            after == SelectedSet(selected_jobs)
        IN  IF CursorBucket \cap before = {} \/ CursorBucket \subseteq before
            THEN after = before
            ELSE after = before \ CursorBucket

\* Two toggles on a header, every member and another job selected before.
C6_Witness ==
    /\ Len(toggle_trail) = 2
    /\ CursorOnHeader
    /\ CursorBucket # {}
    /\ CursorBucket \subseteq SelectedSet(toggle_trail[1])
    /\ SelectedSet(toggle_trail[1]) \ CursorBucket # {}

(***************************************************************************)
(* C7: one toggle_select on a group header leaves the group all-or-nothing:*)
(* no member selected if every member was selected before, otherwise every *)
(* member selected.                                                        *)
(***************************************************************************)
C7_ToggleGroupAllOrNothing ==
    (lastOp = "toggle_select" /\ CursorOnHeader) =>
        LET before == SelectedSet(toggle_trail[Len(toggle_trail)])
            after == SelectedSet(selected_jobs)
        IN  IF CursorBucket \subseteq before
            THEN CursorBucket \cap after = {}
            ELSE CursorBucket \subseteq after

\* Only some members were selected before the toggle.
C7_Witness ==
    /\ lastOp = "toggle_select"
    /\ CursorOnHeader
    /\ LET before == SelectedSet(toggle_trail[Len(toggle_trail)])
       IN  /\ CursorBucket \cap before # {}
           /\ ~(CursorBucket \subseteq before)
    /\ CursorBucket \subseteq SelectedSet(selected_jobs)

(***************************************************************************)
(* C8: all_selected() is true exactly when every job index of the current  *)
(* snapshot is in selected_jobs.                                           *)
(***************************************************************************)
C8_AllSelectedIffEveryIndex ==
    all_selected <=> (\A i \in JobIndices : sel_contains(selected_jobs, i))

(***************************************************************************)
(* C9: for a non-empty snapshot all_selected() is true right after         *)
(* select_all() and false right after clear_selection().                   *)
(***************************************************************************)
C9_SelectAllThenClear ==
    Len(jobs) > 0 =>
        /\ lastOp = "select_all" => all_selected
        /\ lastOp = "clear_selection" => ~all_selected

C9_Witness ==
    /\ lastOp = "select_all"
    /\ Len(jobs) = MaxJobs
    /\ all_selected

(***************************************************************************)
(* C10: with n visible rows, next() and previous() leave the cursor alone  *)
(* and report false when n = 0; from cursor c with n >= 1, next() moves to *)
(* (c+1) mod n and previous() to (c-1) mod n; each reports true iff the    *)
(* cursor changed, so both report false when n = 1.                        *)
(***************************************************************************)
NavigationStepOk(delta) ==
    LET n == Len(visible_rows)
    IN  /\ n = 0 => (state' = state /\ ret' = FALSE)
        /\ (n >= 1 /\ IsSome(state)) =>
               state' = Some((Unwrap(state) + n + delta) % n)
        /\ n >= 1 => ret' = (state' # state)
        /\ n = 1 => ret' = FALSE

C10_NavigationWraps ==
    [][ /\ lastOp' = "next" => NavigationStepOk(1)
        /\ lastOp' = "previous" => NavigationStepOk(-1) ]_vars

\* previous() has just wrapped from the first row to the last one.
C10_Witness ==
    /\ lastOp = "previous"
    /\ ret = TRUE
    /\ Len(visible_rows) >= 2
    /\ state = Some(Len(visible_rows) - 1)

(***************************************************************************)
(* C11: after toggle_group_expand() with the cursor on a row whose group   *)
(* key has two or more members (its header, or a member JobRow of the      *)
(* expanded group), the cursor is on the header row of that key in the     *)
(* rebuilt visible_rows, on expanding as on collapsing.                    *)
(***************************************************************************)
C11_CursorLandsOnHeader ==
    [][ LET tk == target_key(visible_rows, state, jobs)
        IN  ( /\ lastOp' = "toggle_group_expand"
              /\ IsSome(tk)
              /\ Unwrap(tk) \in DOMAIN group_map
              /\ Len(group_map[Unwrap(tk)]) >= 2 )
            => /\ IsSome(row_at(visible_rows', state'))
               /\ is_header_of(Unwrap(row_at(visible_rows', state')),
                               Unwrap(tk)) ]_vars

\* The group under the cursor has just been expanded below a standalone job.
C11_Witness ==
    /\ lastOp = "toggle_group_expand"
    /\ CursorOnHeader
    /\ Unwrap(row_at(visible_rows, state)).key \in expanded_groups
    /\ cursor_before = state
    /\ Unwrap(state) > 0

(***************************************************************************)
(* C12: update_jobs revalidates the cursor against the new row count n: a  *)
(* cursor c with c >= n > 0 becomes 0, a cursor c < n stays c, and an      *)
(* unset cursor becomes 0 when the new snapshot is non-empty.              *)
(***************************************************************************)
C12_UpdateRevalidatesCursor ==
    lastOp = "update_jobs" =>
        LET n == Len(visible_rows)
        IN  /\ (IsSome(cursor_before) /\ Unwrap(cursor_before) >= n /\ n > 0)
                  => state = Some(0)
            /\ (IsSome(cursor_before) /\ Unwrap(cursor_before) < n)
                  => state = cursor_before
            /\ (~IsSome(cursor_before) /\ Len(jobs) > 0)
                  => state = Some(0)

\* The cursor was beyond the rows of the new, non-empty snapshot.
C12_Witness ==
    /\ lastOp = "update_jobs"
    /\ IsSome(cursor_before)
    /\ Len(visible_rows) >= 2
    /\ Unwrap(cursor_before) >= Len(visible_rows)
    /\ state = Some(0)

(***************************************************************************)
(* C13: update_jobs leaves expanded_groups unchanged, so a key expanded    *)
(* before the refresh that has two or more members after it is projected   *)
(* expanded: its header followed by all its member JobRows.                *)
(***************************************************************************)
\* Key k is shown in rows as a header directly followed by the JobRows of
\* bucket, in bucket order.
ProjectedExpanded(rows, k, bucket) ==
    \E p \in 1..Len(rows) :
        /\ is_header_of(rows[p], k)
        /\ p + Len(bucket) <= Len(rows)
        /\ \A m \in 1..Len(bucket) : rows[p + m] = JobRow(bucket[m])

C13_UpdateKeepsExpansion ==
    [][ lastOp' = "update_jobs" =>
          /\ expanded_groups' = expanded_groups
          /\ \A k \in expanded_groups :
                (k \in DOMAIN group_map' /\ Len(group_map'[k]) >= 2)
                   => ProjectedExpanded(visible_rows', k, group_map'[k]) ]_vars

\* A refresh has kept an expanded group of all the jobs of the snapshot.
C13_Witness ==
    /\ lastOp = "update_jobs"
    /\ Len(jobs) = MaxJobs
    /\ \E k \in MultiMemberKeys \cap expanded_groups :
          /\ Len(group_map[k]) = MaxJobs
          /\ ProjectedExpanded(visible_rows, k, group_map[k])

(***************************************************************************)
(* C14: compute_group_key returns the part of the identifier before its    *)
(* first '_' exactly when the text after that first '_' is non-empty and   *)
(* all decimal digits, and the full identifier otherwise; "12345_7" gives  *)
(* "12345", "12345" gives "12345", "12345_abc" gives "12345_abc" and       *)
(* "12345_7_8" gives "12345_7_8".                                          *)
(***************************************************************************)
DecimalDigits == { "0", "1", "2", "3", "4", "5", "6", "7", "8", "9" }

SeparatorPositions(id) == { p \in 1..Len(id) : id[p] = "_" }

\* The key the claim describes for identifier id.
DescribedKey(id) ==
    IF SeparatorPositions(id) = {} THEN id
    ELSE LET first == CHOOSE p \in SeparatorPositions(id) :
                         \A q \in SeparatorPositions(id) : p <= q
             before == [q \in 1..(first - 1) |-> id[q]]
             after == [q \in 1..(Len(id) - first) |-> id[first + q]]
         IN  IF after # <<>> /\ \A q \in 1..Len(after) : after[q] \in DecimalDigits
             THEN before
             ELSE id

\* The key under which the only job of the snapshot is filed.
FiledKeys == DOMAIN group_map

C14_GroupKeyRule ==
    (lastOp = "update_jobs" /\ Len(jobs) = 1) =>
        /\ FiledKeys = { DescribedKey(jobs[1]) }
        /\ jobs[1] = Id12345 \o <<"_", "7">> => FiledKeys = { Id12345 }
        /\ jobs[1] = Id12345 => FiledKeys = { Id12345 }
        /\ jobs[1] = Id12345 \o <<"_", "a", "b", "c">>
              => FiledKeys = { Id12345 \o <<"_", "a", "b", "c">> }
        /\ jobs[1] = Id12345 \o <<"_", "7", "_", "8">>
              => FiledKeys = { Id12345 \o <<"_", "7", "_", "8">> }

\* The array task "12345_7" has been filed under "12345".
C14_Witness ==
    /\ lastOp = "update_jobs"
    /\ jobs = << Id12345 \o <<"_", "7">> >>
    /\ FiledKeys = { Id12345 }

(***************************************************************************)
(* C15: no operation can fail on an out-of-range lookup: every job_index   *)
(* and rep_job_index in visible_rows and every index in a bucket of        *)
(* group_map is below the snapshot length; toggle_select,                  *)
(* toggle_group_expand and selected_job with a cursor that resolves to no  *)
(* row change nothing and yield an absent result; update_jobs accepts the  *)
(* empty snapshot like any other.                                          *)
(***************************************************************************)
RowIndex(row) ==
    IF row.kind = "Group" THEN row.rep_job_index ELSE row.job_index

StoredIndicesInRange ==
    /\ \A p \in 1..Len(visible_rows) : RowIndex(visible_rows[p]) < Len(jobs)
    /\ \A k \in DOMAIN group_map :
          \A m \in 1..Len(group_map[k]) : group_map[k][m] < Len(jobs)

CursorResolvesToNoRow == ~IsSome(row_at(visible_rows, state))

C15_NoOutOfRangeLookup ==
    /\ [](/\ StoredIndicesInRange
          /\ CursorResolvesToNoRow =>
                /\ selected_job = None
                /\ target_key(visible_rows, state, jobs) = None
          /\ ENABLED update_jobs(<<>>))
    /\ [][ ( /\ lastOp' \in {"toggle_select", "toggle_group_expand"}
             /\ CursorResolvesToNoRow )
           => UNCHANGED <<jobs, selected_jobs, group_map, expanded_groups,
                          visible_rows, state>> ]_vars

\* toggle_group_expand was called with a stale cursor over an empty list.
C15_Witness ==
    /\ lastOp = "toggle_group_expand"
    /\ IsSome(state)
    /\ CursorResolvesToNoRow
    /\ selected_jobs # EmptyBag

(***************************************************************************)
(* C16: visible_rows is ordered so that (a) the header of each             *)
(* multi-member group stands where its first member would stand in         *)
(* snapshot order relative to the other groups and the standalone jobs,    *)
(* (b) the JobRows of an expanded group follow its header immediately and  *)
(* contiguously in ascending bucket order, and (c) a collapsed             *)
(* multi-member group contributes its header and no JobRow.                *)
(***************************************************************************)
HeaderPositions(k) ==
    { p \in 1..Len(visible_rows) : is_header_of(visible_rows[p], k) }

\* Rows that are not members shown under a header: headers and the JobRows
\* of single-member keys.
IsTopLevel(row) ==
    \/ row.kind = "Group"
    \/ /\ row.kind = "Job"
       /\ \A k \in MultiMemberKeys : ~contains(group_map[k], row.job_index)

\* Snapshot position that decides where a top-level row stands.
Anchor(row) ==
    IF row.kind = "Group" THEN group_map[row.key][1] ELSE row.job_index

Ascending(bucket) ==
    \A m, n \in 1..Len(bucket) : m < n => bucket[m] < bucket[n]

C16_RowOrder ==
    /\ \A k \in MultiMemberKeys : HeaderPositions(k) # {}
    /\ \A p, q \in 1..Len(visible_rows) :
          ( /\ p < q
            /\ IsTopLevel(visible_rows[p])
            /\ IsTopLevel(visible_rows[q]) )
          => Anchor(visible_rows[p]) < Anchor(visible_rows[q])
    /\ \A k \in MultiMemberKeys \cap expanded_groups :
          /\ Ascending(group_map[k])
          /\ ProjectedExpanded(visible_rows, k, group_map[k])
    /\ \A k \in MultiMemberKeys \ expanded_groups :
          /\ Cardinality(HeaderPositions(k)) = 1
          /\ \A m \in 1..Len(group_map[k]) :
                JobRowPositions(group_map[k][m]) = {}

\* Two interleaved array groups, one expanded and one collapsed, after a
\* toggle_group_expand.
C16_Witness ==
    /\ lastOp = "toggle_group_expand"
    /\ \E k1 \in MultiMemberKeys \cap expanded_groups :
       \E k2 \in MultiMemberKeys \ expanded_groups :
          /\ group_map[k1][1] < group_map[k2][1]
          /\ group_map[k2][1] < group_map[k1][2]
          /\ group_map[k1][2] < group_map[k2][2]

(***************************************************************************)
(* C17: every header row is well formed: its key has a bucket of two or    *)
(* more members, its representative job index is the first (smallest)      *)
(* element of that bucket, and no key has more than one header; a key with *)
(* exactly one member has no header.                                       *)
(***************************************************************************)
C17_HeadersWellFormed ==
    /\ \A p \in 1..Len(visible_rows) :
          visible_rows[p].kind = "Group" =>
             LET k == visible_rows[p].key
             IN  /\ k \in DOMAIN group_map
                 /\ Len(group_map[k]) >= 2
                 /\ visible_rows[p].rep_job_index = group_map[k][1]
                 /\ \A m \in 1..Len(group_map[k]) :
                       visible_rows[p].rep_job_index <= group_map[k][m]
                 /\ HeaderPositions(k) = {p}
    /\ \A k \in DOMAIN group_map :
          Len(group_map[k]) = 1 => HeaderPositions(k) = {}
    /\ CursorOnHeader =>
          selected_job =
             job_at(jobs, Unwrap(row_at(visible_rows, state)).rep_job_index)

\* The cursor is on the second of the headers of two array groups.
C17_Witness ==
    /\ CursorOnHeader
    /\ Cardinality(MultiMemberKeys) = 2
    /\ \E p \in 1..Len(visible_rows) :
          /\ visible_rows[p].kind = "Group"
          /\ p < Unwrap(state) + 1
    /\ IsSome(selected_job)

(***************************************************************************)
(* C18: toggle_group_expand() with the cursor on a standalone JobRow whose *)
(* group key has exactly one member leaves visible_rows and the cursor as  *)
(* they were, and the key has no header and no expanded member rows.       *)
(***************************************************************************)
CursorOnJobRow ==
    IsSome(row_at(visible_rows, state))
    /\ Unwrap(row_at(visible_rows, state)).kind = "Job"

\* The key of the group map that holds the job under the cursor.
CursorJobKey ==
    CHOOSE k \in DOMAIN group_map :
        contains(group_map[k], Unwrap(row_at(visible_rows, state)).job_index)

CursorOnSingleton == CursorOnJobRow /\ Len(group_map[CursorJobKey]) = 1

C18_SingletonToggleKeepsView ==
    [][ (lastOp' = "toggle_group_expand" /\ CursorOnSingleton) =>
           /\ visible_rows' = visible_rows
           /\ state' = state
           /\ \A p \in 1..Len(visible_rows') :
                 ~is_header_of(visible_rows'[p], CursorJobKey)
           /\ Cardinality({ p \in 1..Len(visible_rows') :
                              visible_rows'[p] =
                                 Unwrap(row_at(visible_rows, state)) }) = 1 ]_vars

\* The key of a standalone job below an array group has just been put into
\* the expansion set.
C18_Witness ==
    /\ lastOp = "toggle_group_expand"
    /\ CursorOnSingleton
    /\ CursorJobKey \in expanded_groups
    /\ cursor_before = state
    /\ Unwrap(state) > 0
    /\ MultiMemberKeys # {}

(***************************************************************************)
(* C19: selected_jobs holds no job index more than once.                   *)
(***************************************************************************)
C19_SelectionHasNoDuplicate ==
    \A i \in SelectedSet(selected_jobs) : CopiesIn(i, selected_jobs) = 1

\* A bulk select has completed a partly selected group while a job outside
\* the group is selected too.
C19_Witness ==
    /\ lastOp = "toggle_select"
    /\ CursorOnHeader
    /\ CursorBucket \cap SelectedSet(toggle_trail[Len(toggle_trail)]) # {}
    /\ CursorBucket \subseteq SelectedSet(selected_jobs)
    /\ sel_len(selected_jobs) > sel_len(toggle_trail[Len(toggle_trail)])
    /\ SelectedSet(selected_jobs) \ CursorBucket # {}

(***************************************************************************)
(* C20: the stored group map and visible rows equal the ones obtained by   *)
(* recomputing grouping and projection from the current job snapshot and   *)
(* the current expansion set.                                              *)
(***************************************************************************)
C20_RowsInSyncWithJobs ==
    /\ group_map = rebuild_group_map(jobs)
    /\ visible_rows =
          rebuild_visible_rows(jobs, rebuild_group_map(jobs), expanded_groups)

\* A group of all the jobs has just been collapsed from one of its member
\* rows.
C20_Witness ==
    /\ lastOp = "toggle_group_expand"
    /\ CursorOnHeader
    /\ Unwrap(row_at(visible_rows, state)).key \notin expanded_groups
    /\ Len(jobs) = MaxJobs
    /\ Len(visible_rows) = 1
    /\ cursor_before # state

(***************************************************************************)
(* C21: toggle_select changes selection membership only for its target.    *)
(* With the cursor on a JobRow the set of indices whose membership changes *)
(* is exactly that row's job index; with the cursor on a GroupHeader it is *)
(* a subset of that group's bucket; when the cursor resolves to no row     *)
(* (no cursor, or an empty row list) the selection is unchanged.  In every *)
(* case jobs, group_map, expanded_groups, visible_rows and the cursor are  *)
(* unchanged.                                                              *)
(***************************************************************************)
\* Indices that are members of exactly one of the two selections.
MembershipChanges(before, after) ==
    (SelectedSet(before) \ SelectedSet(after))
        \cup (SelectedSet(after) \ SelectedSet(before))

C21_ToggleSelectFrame ==
    [][lastOp' = "toggle_select" =>
        /\ UNCHANGED <<jobs, group_map, expanded_groups, visible_rows, state>>
        /\ CursorOnJobRow =>
              MembershipChanges(selected_jobs, selected_jobs') =
                  { Unwrap(row_at(visible_rows, state)).job_index }
        /\ CursorOnHeader =>
              MembershipChanges(selected_jobs, selected_jobs')
                  \subseteq CursorBucket
        /\ ~IsSome(row_at(visible_rows, state)) =>
              selected_jobs' = selected_jobs]_vars

\* The job under the cursor has just been deselected from its JobRow while
\* another job was selected, and that other job is still selected.
C21_Witness ==
    /\ lastOp = "toggle_select"
    /\ CursorOnJobRow
    /\ LET job_index == Unwrap(row_at(visible_rows, state)).job_index
           before == toggle_trail[Len(toggle_trail)]
       IN  /\ sel_contains(before, job_index)
           /\ ~sel_contains(selected_jobs, job_index)
           /\ SelectedSet(before) \ {job_index} # {}
           /\ SelectedSet(selected_jobs) = SelectedSet(before) \ {job_index}

====
